---- MODULE Spec2Model ----
(***************************************************************************)
(* Model of clap's argument validator (src/parser/validator.rs).           *)
(*                                                                         *)
(* One run of Validator::validate over a schema (cmd), a matcher and a     *)
(* parse state.  The schema and the matcher are the inputs: Init draws     *)
(* them from bounded families, the actions are the phases of validate in   *)
(* the order the code runs them, and result is what validate returns.      *)
(***************************************************************************)
EXTENDS Integers, Sequences, FiniteSets, TLC

VARIABLES
    cmd,               \* the Command (schema); never written by the validator
    parse_state,       \* ParseState handed to validate
    matcher,           \* the ArgMatcher handed to validate
    required,          \* Validator.required: ChildGraph<Id>, in insertion order
    potential,         \* Conflicts.potential: cache Id -> direct conflicts
    missing_required,  \* validate_required's local Vec<Id>
    highest_index,     \* validate_required's local usize
    is_exclusive_present, \* validate_required's local bool
    pc,                \* the phase validate is about to run
    result             \* what validate returned ("None" while running)

vars == <<cmd, parse_state, matcher, required, potential, missing_required,
          highest_index, is_exclusive_present, pc, result>>

----------------------------------------------------------------------------
(* Identifiers, values and bounds *)

ArgIds == {"a", "b", "c", "d"}
GroupIds == {"g"}
Ids == ArgIds \cup GroupIds

\* Declaration order of the schema (Command::get_arguments, get_positionals)
IdOrder == <<"a", "b", "c", "d", "g">>

Vals == {"x", "y"}

\* at most this many builder declarations make up a schema
MaxDecls == 2
\* at most this many identifiers are recorded in the matcher
MaxPresent == 4

NoId == "-"

----------------------------------------------------------------------------
(* Sequence helpers *)

RECURSIVE SeqOfSet(_, _)
\* the members of S in the order seq lists them
SeqOfSet(seq, S) ==
    IF seq = <<>> THEN <<>>
    ELSE (IF Head(seq) \in S THEN <<Head(seq)>> ELSE <<>>) \o SeqOfSet(Tail(seq), S)

Range(seq) == {seq[i] : i \in DOMAIN seq}

Contains(seq, x) == \E i \in DOMAIN seq : seq[i] = x

Max(x, y) == IF x >= y THEN x ELSE y

RECURSIVE Flatten(_)
Flatten(seqs) ==
    IF seqs = <<>> THEN <<>> ELSE Head(seqs) \o Flatten(Tail(seqs))

RECURSIVE Dedup(_, _)
\* first occurrences of seq not already in seen, in order (FlatSet::insert)
Dedup(seq, seen) ==
    IF seq = <<>> THEN <<>>
    ELSE IF Head(seq) \in seen THEN Dedup(Tail(seq), seen)
    ELSE <<Head(seq)>> \o Dedup(Tail(seq), seen \cup {Head(seq)})

----------------------------------------------------------------------------
(* The schema: builder declarations and the Command they build *)

Dcl(k, a, b, v, n) == [k |-> k, a |-> a, b |-> b, v |-> v, n |-> n]

Picked(D, k, a) == {d \in D : d.k = k /\ d.a = a}

IsPresent == [eq |-> FALSE, val |-> NoId]
Equals(v) == [eq |-> TRUE, val |-> v]

ArgOf(D, a) ==
    [ exclusive    |-> Picked(D, "exclusive", a) # {},
      required     |-> Picked(D, "required", a) # {},
      last         |-> Picked(D, "last", a) # {},
      index        |-> IF Picked(D, "index", a) = {} THEN 0
                       ELSE (CHOOSE d \in Picked(D, "index", a) : TRUE).n,
      min_vals     |-> IF Picked(D, "num_args_0", a) = {} THEN 1 ELSE 0,
      blacklist    |-> {d.b : d \in Picked(D, "conflicts_with", a)},
      overrides    |-> {d.b : d \in Picked(D, "overrides_with", a)},
      requires     |-> {<<IsPresent, d.b>> : d \in Picked(D, "requires", a)}
                       \cup {<<Equals(d.v), d.b>> : d \in Picked(D, "requires_if", a)},
      r_ifs        |-> {<<d.b, d.v>> : d \in Picked(D, "required_if_eq", a)},
      r_ifs_all    |-> {<<d.b, d.v>> : d \in Picked(D, "required_if_eq_all", a)},
      r_unless     |-> {d.b : d \in Picked(D, "required_unless_present", a)},
      r_unless_all |-> {d.b : d \in Picked(D, "required_unless_present_all", a)} ]

GroupOf(D, g) ==
    [ args      |-> {d.b : d \in Picked(D, "group_arg", g)},
      multiple  |-> Picked(D, "group_multiple", g) # {},
      required  |-> Picked(D, "required", g) # {},
      conflicts |-> {d.b : d \in Picked(D, "group_conflicts_with", g)},
      requires  |-> {d.b : d \in Picked(D, "group_requires", g)} ]

BuildCmd(D) ==
    [ args     |-> [a \in ArgIds |-> ArgOf(D, a)],
      groups   |-> [g \in GroupIds |-> GroupOf(D, g)],
      settings |-> {d.a : d \in {e \in D : e.k = "setting"}} ]

\* Command::find: the argument an id names, if any
IsArg(id) == id \in ArgIds
\* Command::find_group
IsGroup(id) == id \in GroupIds

\* Command::groups_for_arg
groups_for_arg(a) == {g \in GroupIds : a \in cmd.groups[g].args}

\* Command::unroll_args_in_group, for groups whose members are arguments
unroll_args_in_group(g) == SeqOfSet(IdOrder, cmd.groups[g].args)

\* Command::get_arguments, in declaration order
get_arguments == SeqOfSet(IdOrder, ArgIds)

\* Command::get_positionals: the arguments that carry an index
get_positionals == SeqOfSet(IdOrder, {a \in ArgIds : cmd.args[a].index # 0})

\* ChildGraph::insert: append unless already there
Insert(graph, id) == IF Contains(graph, id) THEN graph ELSE Append(graph, id)

RECURSIVE InsertAll(_, _)
InsertAll(graph, ids) ==
    IF ids = <<>> THEN graph ELSE InsertAll(Insert(graph, Head(ids)), Tail(ids))

\* Command::required_graph: the required arguments, then each required group
\* followed by what the group requires (ChildGraph::insert_child appends)
required_graph(c) ==
    LET reqArgs == SeqOfSet(IdOrder, {a \in ArgIds : c.args[a].required})
        grp(g) == IF c.groups[g].required
                  THEN <<g>> \o SeqOfSet(IdOrder, c.groups[g].requires)
                  ELSE <<>>
    IN  reqArgs \o Flatten([i \in 1..Len(SeqOfSet(IdOrder, GroupIds)) |->
                              grp(SeqOfSet(IdOrder, GroupIds)[i])])

----------------------------------------------------------------------------
(* The matcher *)

\* ArgMatcher::arg_ids: the recorded ids in insertion order
arg_ids == [i \in DOMAIN matcher.args |-> matcher.args[i].id]

\* MatchedArg::all_val_groups_empty
all_val_groups_empty(e) == Flatten(e.vals) = <<>>

\* ArgMatcher::check_explicit: recorded, not from a default, and matching pred
check_explicit(id, pred) ==
    \E i \in DOMAIN matcher.args :
        LET e == matcher.args[i] IN
        /\ e.id = id
        /\ e.explicit
        /\ (pred.eq => Contains(Flatten(e.vals), pred.val))

\* matcher.arg_ids().filter(|id| matcher.check_explicit(id, IsPresent))
ExplicitIds == SelectSeq(arg_ids, LAMBDA id : check_explicit(id, IsPresent))

Present(id) == check_explicit(id, IsPresent)

----------------------------------------------------------------------------
(* Results of validate *)

NoResult == [kind |-> "None", arg |-> NoId, list |-> <<>>]
Ok == [kind |-> "Ok", arg |-> NoId, list |-> <<>>]
\* Error::empty_value, display_help_error, missing_subcommand,
\* argument_conflict, missing_required_argument (rendered text left out)
Err(kind, arg, list) == [kind |-> kind, arg |-> arg, list |-> list]

----------------------------------------------------------------------------
(* Conflicts: the per-run cache of direct conflicts *)

NoPotential == [id \in Ids |-> [known |-> FALSE, conf |-> {}]]

\* direct_conflicts with the test of group.multiple inverted
direct_conflicts_multiple_inverted(id) ==
    IF IsArg(id)
    THEN cmd.args[id].blacklist
         \cup UNION {cmd.groups[g].conflicts : g \in groups_for_arg(id)}
         \cup UNION {IF ~cmd.groups[g].multiple THEN {}
                     ELSE cmd.groups[g].args \ {id} : g \in groups_for_arg(id)}
         \cup cmd.args[id].overrides
    ELSE IF IsGroup(id) THEN cmd.groups[id].conflicts
    ELSE {}

\* what gather_direct_conflicts computes for an id it has not cached yet
direct_conflicts(id) ==
    IF IsArg(id)
    THEN cmd.args[id].blacklist
         \cup UNION {cmd.groups[g].conflicts : g \in groups_for_arg(id)}
         \cup UNION {IF cmd.groups[g].multiple THEN {}
                     ELSE cmd.groups[g].args \ {id} : g \in groups_for_arg(id)}
         \cup cmd.args[id].overrides
    ELSE IF IsGroup(id) THEN cmd.groups[id].conflicts
    ELSE {}

\* potential.entry(id).or_insert_with(..): the cache after the lookup
gather_direct_conflicts(pot, id) ==
    IF pot[id].known THEN pot
    ELSE [pot EXCEPT ![id] = [known |-> TRUE, conf |-> direct_conflicts(id)]]

\* conflicts_with without the lookup of the other id's direct conflicts
conflicts_with_declared_only(pot, arg_id, other) ==
    LET p1 == gather_direct_conflicts(pot, arg_id)
        c1 == IF other \in p1[arg_id].conf THEN <<other>> ELSE <<>>
    IN  [conflicts |-> c1, potential |-> p1]

\* one iteration of gather_conflicts' loop: what other contributes, and the cache
conflicts_with(pot, arg_id, other) ==
    LET p1 == gather_direct_conflicts(pot, arg_id)
        c1 == IF other \in p1[arg_id].conf THEN <<other>> ELSE <<>>
        p2 == gather_direct_conflicts(p1, other)
        c2 == IF arg_id \in p2[other].conf THEN <<other>> ELSE <<>>
    IN  [conflicts |-> c1 \o c2, potential |-> p2]

RECURSIVE gather_loop(_, _, _, _)
gather_loop(pot, arg_id, others, acc) ==
    IF others = <<>> THEN [conflicts |-> acc, potential |-> pot]
    ELSE IF Head(others) = arg_id THEN gather_loop(pot, arg_id, Tail(others), acc)
    ELSE LET step == conflicts_with(pot, arg_id, Head(others))
         IN  gather_loop(step.potential, arg_id, Tail(others), acc \o step.conflicts)

\* Conflicts::gather_conflicts: the explicitly present ids in conflict with arg_id
gather_conflicts(pot, arg_id) == gather_loop(pot, arg_id, ExplicitIds, <<>>)

----------------------------------------------------------------------------
(* Validator *)

\* should_err with the minimum value count forgotten
should_err_any_min(o) ==
    IF \E i \in DOMAIN matcher.args : matcher.args[i].id = o
    THEN LET v == matcher.args[CHOOSE i \in DOMAIN matcher.args : matcher.args[i].id = o]
         IN  all_val_groups_empty(v)
    ELSE TRUE

\* validate, phase 1: whether the pending option lacks its values
should_err(o) ==
    IF \E i \in DOMAIN matcher.args : matcher.args[i].id = o
    THEN LET v == matcher.args[CHOOSE i \in DOMAIN matcher.args : matcher.args[i].id = o]
         IN  all_val_groups_empty(v) /\ cmd.args[o].min_vals # 0
    ELSE TRUE

\* validate's help-on-no-args test
help_on_no_args ==
    /\ ~matcher.subcommand
    /\ "arg_required_else_help" \in cmd.settings
    /\ Len(ExplicitIds) = 0

\* validate's subcommand-required test
subcommand_missing ==
    ~matcher.subcommand /\ "subcommand_required" \in cmd.settings

\* validate's guard of validate_required
runs_required ==
    ~("subcommand_negates_reqs" \in cmd.settings /\ matcher.subcommand)

\* validate_exclusive looking at the first present id only
validate_exclusive_first_only ==
    LET args_count == Len(ExplicitIds)
    IN  IF args_count <= 1 THEN Ok
        ELSE IF IsArg(Head(ExplicitIds)) /\ cmd.args[Head(ExplicitIds)].exclusive
        THEN Err("ArgumentConflict", Head(ExplicitIds), <<>>)
        ELSE Ok

\* validate_exclusive: the error it returns, or Ok
validate_exclusive ==
    LET args_count == Len(ExplicitIds)
        excl == SelectSeq(ExplicitIds,
                    LAMBDA name : IsArg(name) /\ cmd.args[name].exclusive
                                  /\ args_count > 1)
    IN  IF args_count <= 1 THEN Ok
        ELSE IF excl = <<>> THEN Ok
        ELSE Err("ArgumentConflict", Head(excl), <<>>)

\* build_conflict_err: groups among the conflicts unrolled, each id once
build_conflict_err(name, conflict_ids) ==
    IF conflict_ids = <<>> THEN Ok
    ELSE Err("ArgumentConflict", name,
             Dedup(Flatten([i \in DOMAIN conflict_ids |->
                              IF IsGroup(conflict_ids[i])
                              THEN unroll_args_in_group(conflict_ids[i])
                              ELSE <<conflict_ids[i]>>]), {}))

RECURSIVE conflict_loop_last(_, _)
\* conflict_loop that keeps going and returns the last conflict it meets
conflict_loop_last(pot, ids) ==
    IF ids = <<>> THEN [res |-> Ok, potential |-> pot]
    ELSE LET g == gather_conflicts(pot, Head(ids))
             e == build_conflict_err(Head(ids), g.conflicts)
             rest == conflict_loop_last(g.potential, Tail(ids))
         IN  IF rest.res.kind # "Ok" THEN rest
             ELSE [res |-> e, potential |-> rest.potential]

RECURSIVE conflict_loop(_, _)
\* validate_conflicts' loop: stops at the first id whose conflicts are not empty
conflict_loop(pot, ids) ==
    IF ids = <<>> THEN [res |-> Ok, potential |-> pot]
    ELSE LET g == gather_conflicts(pot, Head(ids))
             e == build_conflict_err(Head(ids), g.conflicts)
         IN  IF e.kind # "Ok" THEN [res |-> e, potential |-> g.potential]
             ELSE conflict_loop(g.potential, Tail(ids))

\* the ids validate_conflicts iterates: explicitly present and known arguments
conflict_candidates == SelectSeq(ExplicitIds, IsArg)

RECURSIVE unroll_loop(_, _, _, _)
\* Command::unroll_arg_requires' work list: r_vec is popped from its end; the
\* filter tests every rule against the values of the argument it started from
unroll_loop(r_vec, processed, args, orig) ==
    IF r_vec = <<>> THEN args
    ELSE LET a == r_vec[Len(r_vec)]
             rest == SubSeq(r_vec, 1, Len(r_vec) - 1)
         IN  IF a \in processed THEN unroll_loop(rest, processed, args, orig)
             ELSE LET rs == SeqOfSet(IdOrder,
                               {r[2] : r \in {q \in cmd.args[a].requires :
                                                check_explicit(orig, q[1])}})
                      more == SelectSeq(rs, LAMBDA r :
                                  IsArg(r) /\ cmd.args[r].requires # {})
                  IN  unroll_loop(rest \o more, processed \cup {a}, args \o rs, orig)

unroll_arg_requires(arg) == unroll_loop(<<arg>>, {}, <<>>, arg)

RECURSIVE gather_requires_loop(_, _)
gather_requires_loop(graph, names) ==
    IF names = <<>> THEN graph
    ELSE LET name == Head(names)
             reqs == IF IsArg(name) THEN unroll_arg_requires(name)
                     ELSE IF IsGroup(name)
                     THEN SeqOfSet(IdOrder, cmd.groups[name].requires)
                     ELSE <<>>
         IN  gather_requires_loop(InsertAll(graph, reqs), Tail(names))

\* gather_requires: the Required-Set grown by what the present ids require
gather_requires == gather_requires_loop(required, ExplicitIds)

\* validate_required's test for an exclusive argument among the present ids
exclusive_present ==
    \E i \in DOMAIN ExplicitIds :
        IsArg(ExplicitIds[i]) /\ cmd.args[ExplicitIds[i]].exclusive

\* the index an argument folds into highest_index
fold_index(hi, a) ==
    IF ~cmd.args[a].last THEN Max(hi, cmd.args[a].index) ELSE hi

\* validate_required's test for a group of the Required-Set
group_is_missing(g) ==
    ~\E i \in DOMAIN unroll_args_in_group(g) : Present(unroll_args_in_group(g)[i])

RECURSIVE required_scan_first_only(_, _, _, _, _)
\* required_scan returning at the first missing id it finds
required_scan_first_only(pot, reqs, missing, hi, excl) ==
    IF reqs = <<>> THEN [missing |-> missing, highest |-> hi, potential |-> pot]
    ELSE LET r == Head(reqs) IN
         IF Present(r)
         THEN required_scan_first_only(pot, Tail(reqs), missing, hi, excl)
         ELSE IF IsArg(r)
         THEN IF excl
              THEN required_scan_first_only(pot, Tail(reqs), missing, hi, excl)
              ELSE LET g == gather_conflicts(pot, r)
                   IN  IF g.conflicts = <<>>
                       THEN [missing |-> Append(missing, r),
                             highest |-> fold_index(hi, r),
                             potential |-> g.potential]
                       ELSE required_scan_first_only(g.potential, Tail(reqs),
                                                     missing, hi, excl)
         ELSE IF IsGroup(r) /\ group_is_missing(r)
         THEN [missing |-> Append(missing, r), highest |-> hi, potential |-> pot]
         ELSE required_scan_first_only(pot, Tail(reqs), missing, hi, excl)

RECURSIVE required_scan(_, _, _, _, _)
\* validate_required's loop over the absent ids of the Required-Set; excl is
\* is_exclusive_present
required_scan(pot, reqs, missing, hi, excl) ==
    IF reqs = <<>> THEN [missing |-> missing, highest |-> hi, potential |-> pot]
    ELSE LET r == Head(reqs) IN
         IF Present(r) THEN required_scan(pot, Tail(reqs), missing, hi, excl)
         ELSE IF IsArg(r)
         THEN IF excl
              THEN required_scan(pot, Tail(reqs), missing, hi, excl)
              ELSE LET g == gather_conflicts(pot, r)  \* is_missing_required_ok
                   IN  IF g.conflicts = <<>>
                       THEN required_scan(g.potential, Tail(reqs),
                                          Append(missing, r), fold_index(hi, r), excl)
                       ELSE required_scan(g.potential, Tail(reqs), missing, hi, excl)
         ELSE IF IsGroup(r) /\ group_is_missing(r)
         THEN required_scan(pot, Tail(reqs), Append(missing, r), hi, excl)
         ELSE required_scan(pot, Tail(reqs), missing, hi, excl)

\* fails_arg_required_unless with its two tests joined by "or"
fails_arg_required_unless_either(a) ==
    \/ \/ cmd.args[a].r_unless_all = {}
       \/ ~(\A id \in cmd.args[a].r_unless_all : Present(id))
    \/ ~(\E id \in cmd.args[a].r_unless : Present(id))

\* fails_arg_required_unless
fails_arg_required_unless(a) ==
    /\ \/ cmd.args[a].r_unless_all = {}
       \/ ~(\A id \in cmd.args[a].r_unless_all : Present(id))
    /\ ~(\E id \in cmd.args[a].r_unless : Present(id))

\* the conditional sweep's verdict on one absent argument
conditionally_required(a) ==
    \/ \E r \in cmd.args[a].r_ifs : check_explicit(r[1], Equals(r[2]))
    \/ /\ \A r \in cmd.args[a].r_ifs_all : check_explicit(r[1], Equals(r[2]))
       /\ cmd.args[a].r_ifs_all # {}
    \/ /\ cmd.args[a].r_unless # {} \/ cmd.args[a].r_unless_all # {}
       /\ fails_arg_required_unless(a)

RECURSIVE conditional_sweep(_, _, _)
\* validate_required's loop over the absent arguments of the schema
conditional_sweep(args, missing, hi) ==
    IF args = <<>> THEN [missing |-> missing, highest |-> hi]
    ELSE LET a == Head(args) IN
         IF ~Present(a) /\ conditionally_required(a)
         THEN conditional_sweep(Tail(args), Append(missing, a), fold_index(hi, a))
         ELSE conditional_sweep(Tail(args), missing, hi)

\* precedes_highest with the comparison turned around
follows_highest(pos, hi) == cmd.args[pos].index > hi

\* the back-fill's test on one absent positional
precedes_highest(pos, hi) == cmd.args[pos].index < hi

\* validate_required's back-fill of the preceding positionals
positional_backfill(missing, hi) ==
    IF "allow_missing_positional" \in cmd.settings THEN missing
    ELSE missing \o SelectSeq(get_positionals,
                      LAMBDA pos : ~Present(pos) /\ precedes_highest(pos, hi))

\* missing_required_error: the ids the error is built from
missing_required_error(raw_req_args) ==
    Err("MissingRequiredArgument", NoId, raw_req_args)

----------------------------------------------------------------------------
(* The phases of validate, in the order of the code *)

Done(r) == pc' = "done" /\ result' = r
Goto(p) == pc' = p /\ UNCHANGED result

\* validate: the pending-value check
ValidatePending ==
    /\ pc = "pending"
    /\ IF parse_state.kind = "Opt" /\ should_err(parse_state.id)
       THEN Done(Err("EmptyValue", parse_state.id, <<>>))
       ELSE Goto("help")
    /\ UNCHANGED <<cmd, parse_state, matcher, required, potential,
                   missing_required, highest_index, is_exclusive_present>>

\* ValidateHelp with the subcommand test run before the help test
ValidateHelpAfterSubcommand ==
    /\ pc = "help"
    /\ IF subcommand_missing
       THEN Done(Err("MissingSubcommand", NoId, <<>>))
       ELSE IF help_on_no_args
       THEN Done(Err("DisplayHelp", NoId, <<>>))
       ELSE Goto("exclusive")
    /\ UNCHANGED <<cmd, parse_state, matcher, required, potential,
                   missing_required, highest_index, is_exclusive_present>>

\* validate: arg_required_else_help
ValidateHelp ==
    /\ pc = "help"
    /\ IF help_on_no_args
       THEN Done(Err("DisplayHelp", NoId, <<>>))
       ELSE Goto("subcommand")
    /\ UNCHANGED <<cmd, parse_state, matcher, required, potential,
                   missing_required, highest_index, is_exclusive_present>>

\* validate: subcommand_required
ValidateSubcommand ==
    /\ pc = "subcommand"
    /\ IF subcommand_missing
       THEN Done(Err("MissingSubcommand", NoId, <<>>))
       ELSE Goto("exclusive")
    /\ UNCHANGED <<cmd, parse_state, matcher, required, potential,
                   missing_required, highest_index, is_exclusive_present>>

\* validate_conflicts: validate_exclusive
ValidateExclusive ==
    /\ pc = "exclusive"
    /\ IF validate_exclusive.kind # "Ok"
       THEN Done(validate_exclusive)
       ELSE Goto("conflicts")
    /\ UNCHANGED <<cmd, parse_state, matcher, required, potential,
                   missing_required, highest_index, is_exclusive_present>>

\* validate_conflicts: the pairwise check; then validate's guard of
\* validate_required
ValidateConflicts ==
    /\ pc = "conflicts"
    /\ LET out == conflict_loop(potential, conflict_candidates)
       IN  /\ potential' = out.potential
           /\ IF out.res.kind # "Ok" THEN Done(out.res)
              ELSE IF runs_required THEN Goto("gather_requires")
              ELSE Done(Ok)
    /\ UNCHANGED <<cmd, parse_state, matcher, required,
                   missing_required, highest_index, is_exclusive_present>>

\* validate_required: gather_requires, the locals, is_exclusive_present
GatherRequires ==
    /\ pc = "gather_requires"
    /\ required' = gather_requires
    /\ missing_required' = <<>>
    /\ highest_index' = 0
    /\ is_exclusive_present' = exclusive_present
    /\ Goto("required_scan")
    /\ UNCHANGED <<cmd, parse_state, matcher, potential>>

\* validate_required: the scan of the Required-Set
RequiredScan ==
    /\ pc = "required_scan"
    /\ LET out == required_scan(potential, required, missing_required,
                                highest_index, is_exclusive_present)
       IN  /\ potential' = out.potential
           /\ missing_required' = out.missing
           /\ highest_index' = out.highest
    /\ Goto("conditional")
    /\ UNCHANGED <<cmd, parse_state, matcher, required, is_exclusive_present>>

\* validate_required: the conditionally required arguments
ConditionalSweep ==
    /\ pc = "conditional"
    /\ LET out == conditional_sweep(get_arguments, missing_required, highest_index)
       IN  /\ missing_required' = out.missing
           /\ highest_index' = out.highest
    /\ Goto("backfill")
    /\ UNCHANGED <<cmd, parse_state, matcher, required, potential,
                   is_exclusive_present>>

\* validate_required: the preceding positionals
PositionalBackfill ==
    /\ pc = "backfill"
    /\ missing_required' = positional_backfill(missing_required, highest_index)
    /\ Goto("report")
    /\ UNCHANGED <<cmd, parse_state, matcher, required, potential,
                   highest_index, is_exclusive_present>>

\* validate_required's end and validate's return
Report ==
    /\ pc = "report"
    /\ IF missing_required # <<>>
       THEN Done(missing_required_error(missing_required))
       ELSE Done(Ok)
    /\ UNCHANGED <<cmd, parse_state, matcher, required, potential,
                   missing_required, highest_index, is_exclusive_present>>

Next ==
    \/ ValidatePending
    \/ ValidateHelp
    \/ ValidateSubcommand
    \/ ValidateExclusive
    \/ ValidateConflicts
    \/ GatherRequires
    \/ RequiredScan
    \/ ConditionalSweep
    \/ PositionalBackfill
    \/ Report

----------------------------------------------------------------------------
(* The inputs: families of schemas and matchers *)

RECURSIVE SubsetsUpTo(_, _)
\* the subsets of U with at most k members
SubsetsUpTo(U, k) ==
    IF k = 0 THEN {{}}
    ELSE LET prev == SubsetsUpTo(U, k - 1)
         IN  prev \cup {p[1] \cup {p[2]} : p \in prev \X U}

RECURSIVE MatcherArgs(_, _)
\* the sequences of at most k entries, no id recorded twice (FlatMap keys)
MatcherArgs(entries, k) ==
    IF k = 0 THEN {<<>>}
    ELSE LET prev == MatcherArgs(entries, k - 1)
         IN  prev \cup {Append(p[1], p[2]) :
                          p \in {q \in prev \X entries :
                                   \A i \in DOMAIN q[1] : q[1][i].id # q[2].id}}

Entry(id, explicit, vals) == [id |-> id, explicit |-> explicit, vals |-> vals]

\* The parser records a group's id when it records, from the command line, one
\* of the group's members; removing an overridden member's entry leaves the
\* group's entry in place.  So a recorded group has a recorded member, or a
\* recorded argument that overrides one of its members.
RecordedByParser(c, m) ==
    \A i \in DOMAIN m.args :
        IsGroup(m.args[i].id) =>
            \E j \in DOMAIN m.args :
                LET e == m.args[j] IN
                /\ IsArg(e.id)
                /\ e.explicit
                /\ \/ e.id \in c.groups[m.args[i].id].args
                   \/ c.args[e.id].overrides \cap c.groups[m.args[i].id].args # {}

Matchers(c, entries, subcommands) ==
    {m \in [args : MatcherArgs(entries, MaxPresent), subcommand : subcommands] :
        RecordedByParser(c, m)}

Setting(name) == Dcl("setting", name, NoId, NoId, 0)
Flag(k, a) == Dcl(k, a, NoId, NoId, 0)
Rel(k, a, b) == Dcl(k, a, b, NoId, 0)
RelIf(k, a, b, v) == Dcl(k, a, b, v, 0)
Index(a, n) == Dcl("index", a, NoId, NoId, n)

Complete == [kind |-> "Complete", id |-> NoId]
Opt(a) == [kind |-> "Opt", id |-> a]

\* Validator::new and the locals of validate before its first phase
Start ==
    /\ required = required_graph(cmd)
    /\ potential = NoPotential
    /\ missing_required = <<>>
    /\ highest_index = 0
    /\ is_exclusive_present = FALSE
    /\ pc = "pending"
    /\ result = NoResult

\* Phase order: settings, a pending option with or without recorded values,
\* a conflict and a requirement
PhaseDecls ==
    {Setting("arg_required_else_help"), Setting("subcommand_required"),
     Setting("subcommand_negates_reqs"),
     Flag("num_args_0", "a"), Flag("num_args_0", "b"),
     Rel("conflicts_with", "a", "b"), Flag("exclusive", "b"),
     Flag("required", "a"), Flag("required", "c")}

PhaseEntries ==
    {Entry(id, e, v) : id \in {"a", "b"}, e \in BOOLEAN,
                       v \in {<<>>, << <<>> >>, << <<"x">> >>}}

InitPhases ==
    /\ cmd \in {BuildCmd(D) : D \in SubsetsUpTo(PhaseDecls, MaxDecls)}
    /\ matcher \in Matchers(cmd, PhaseEntries, BOOLEAN)
    /\ parse_state \in {Complete, Opt("a"), Opt("b")}
    /\ Start

\* Conflicts: exclusive arguments, one-sided conflicts and overrides, a group
ConflictDecls ==
    {Flag("exclusive", "a"), Flag("exclusive", "c"),
     Rel("conflicts_with", "a", "b"), Rel("conflicts_with", "d", "c"),
     Rel("conflicts_with", "b", "c"), Rel("conflicts_with", "a", "g"),
     Rel("overrides_with", "b", "a"), Rel("overrides_with", "c", "d"),
     Rel("group_arg", "g", "b"), Rel("group_arg", "g", "c"),
     Rel("group_arg", "g", "d"), Flag("group_multiple", "g"),
     Rel("group_conflicts_with", "g", "a"),
     Flag("required", "d"), Setting("subcommand_required")}

ConflictEntries ==
    {Entry(id, TRUE, << <<"x">> >>) : id \in Ids}
    \cup {Entry("b", FALSE, << <<"x">> >>)}

InitConflicts ==
    /\ cmd \in {BuildCmd(D) : D \in SubsetsUpTo(ConflictDecls, MaxDecls)}
    /\ matcher \in Matchers(cmd, ConflictEntries, {FALSE})
    /\ parse_state = Complete
    /\ Start

\* Requirements: the Required-Set, conditional requirements, positionals
RequiredDecls ==
    {Flag("required", "a"), Flag("required", "b"), Flag("required", "g"),
     Rel("required_unless_present", "a", "c"),
     Rel("required_unless_present_all", "a", "b"),
     RelIf("required_if_eq", "a", "b", "x"),
     RelIf("required_if_eq_all", "a", "b", "x"),
     RelIf("required_if_eq_all", "a", "c", "x"),
     Rel("requires", "c", "a"),
     Flag("last", "b"), Setting("allow_missing_positional"),
     Flag("exclusive", "c"), Rel("conflicts_with", "a", "c"),
     Rel("overrides_with", "c", "a"), Rel("group_arg", "g", "b")}

\* a is a member of group g; a and b are options, or the positionals 1 and 2
\* in either order
PositionalDecls ==
    {{Rel("group_arg", "g", "a")} \cup P :
        P \in {{}, {Index("a", 1), Index("b", 2)}, {Index("a", 2), Index("b", 1)}}}

RequiredEntries ==
    {Entry(id, TRUE, << <<"x">> >>) : id \in {"a", "c", "g"}}
    \cup {Entry("b", TRUE, << <<"x">> >>), Entry("b", TRUE, << <<"y">> >>),
          Entry("b", FALSE, << <<"x">> >>)}

InitRequired ==
    /\ cmd \in {BuildCmd(D \cup P) : D \in SubsetsUpTo(RequiredDecls, MaxDecls),
                                    P \in PositionalDecls}
    /\ matcher \in Matchers(cmd, RequiredEntries, {FALSE})
    /\ parse_state = Complete
    /\ Start

Init == InitPhases \/ InitConflicts \/ InitRequired

Spec == Init /\ [][Next]_vars
SpecPhases == InitPhases /\ [][Next]_vars
SpecConflicts == InitConflicts /\ [][Next]_vars
SpecRequired == InitRequired /\ [][Next]_vars

----------------------------------------------------------------------------
(* What each phase decides, read off the inputs of the run *)

PendingFails == parse_state.kind = "Opt" /\ should_err(parse_state.id)

HelpFails == help_on_no_args

SubcommandFails == subcommand_missing

\* validate_conflicts on a fresh cache
ConflictOutcome ==
    IF validate_exclusive.kind # "Ok" THEN validate_exclusive
    ELSE conflict_loop(NoPotential, conflict_candidates).res

ConflictFails == ConflictOutcome.kind # "Ok"

\* validate_required's missing list on a fresh Validator
RequiredMissing ==
    LET req == gather_requires_loop(required_graph(cmd), ExplicitIds)
        scan == required_scan(NoPotential, req, <<>>, 0, exclusive_present)
        sweep == conditional_sweep(get_arguments, scan.missing, scan.highest)
    IN  positional_backfill(sweep.missing, sweep.highest)

RequiredFails == runs_required /\ RequiredMissing # <<>>

\* phases 1-3 passed
ReachesConflicts == ~PendingFails /\ ~HelpFails /\ ~SubcommandFails

\* validate_required ran to its end
RequiredRan == pc = "done" /\ ReachesConflicts /\ ~ConflictFails /\ runs_required

HasEntry(o) == \E i \in DOMAIN matcher.args : matcher.args[i].id = o

\* o has a recorded value group that is not empty
HasValue(o) ==
    \E i \in DOMAIN matcher.args :
        /\ matcher.args[i].id = o
        /\ \E g \in DOMAIN matcher.args[i].vals : matcher.args[i].vals[g] # <<>>

----------------------------------------------------------------------------
(* C1: validate returns the error of the earliest failing phase, in the     *)
(* order pending-value, help-on-no-args, subcommand-required, conflicts,    *)
(* required; Ok only when no phase fails.                                   *)
C1_PhaseOrder ==
    pc = "done" =>
        result.kind = IF PendingFails THEN "EmptyValue"
                      ELSE IF HelpFails THEN "DisplayHelp"
                      ELSE IF SubcommandFails THEN "MissingSubcommand"
                      ELSE IF ConflictFails THEN "ArgumentConflict"
                      ELSE IF RequiredFails THEN "MissingRequiredArgument"
                      ELSE "Ok"

\* the first three phases all fail and EmptyValue is what comes back
C1_Witness ==
    /\ pc = "done"
    /\ PendingFails /\ HelpFails /\ SubcommandFails
    /\ result.kind = "EmptyValue"

(* C7 as stated: with a pending option o, validate returns EmptyValue iff  *)
(* o has no non-empty value group and o's minimum value count is nonzero.   *)
C7_AsStated ==
    pc = "done" /\ parse_state.kind = "Opt" =>
        (result.kind = "EmptyValue" <=>
            ~HasValue(parse_state.id) /\ cmd.args[parse_state.id].min_vals # 0)

(* C7 amended: with a pending option o, validate returns EmptyValue iff    *)
(* the matcher holds no entry for o, or o's entry has no non-empty value    *)
(* group and o's minimum value count is nonzero.                            *)
C7_PendingValue ==
    pc = "done" /\ parse_state.kind = "Opt" =>
        (result.kind = "EmptyValue" <=>
            \/ ~HasEntry(parse_state.id)
            \/ ~HasValue(parse_state.id) /\ cmd.args[parse_state.id].min_vals # 0)

\* a pending option of minimum zero, recorded without values, passes phase 1
C7_Witness ==
    /\ pc = "done"
    /\ parse_state.kind = "Opt"
    /\ HasEntry(parse_state.id) /\ ~HasValue(parse_state.id)
    /\ cmd.args[parse_state.id].min_vals = 0
    /\ result.kind # "EmptyValue"

----------------------------------------------------------------------------
(* Conflict claims *)

IsExclusive(id) == IsArg(id) /\ cmd.args[id].exclusive

\* an exclusive argument is explicitly present with at least one other id
ExclusiveWithCompany ==
    /\ Len(ExplicitIds) >= 2
    /\ \E i \in DOMAIN ExplicitIds : IsExclusive(ExplicitIds[i])

\* the first exclusive argument in the matcher's iteration order
FirstExclusive ==
    ExplicitIds[CHOOSE i \in DOMAIN ExplicitIds :
                    /\ IsExclusive(ExplicitIds[i])
                    /\ \A j \in 1..(i - 1) : ~IsExclusive(ExplicitIds[j])]

NoDup(seq) == \A i, j \in DOMAIN seq : i # j => seq[i] # seq[j]

(* C2: an exclusive argument explicitly present with any other explicitly  *)
(* present id never validates; once phases 1-3 pass the result is an        *)
(* ArgumentConflict naming the first exclusive argument in matcher order,   *)
(* with an empty conflicting-list.                                          *)
C2_Exclusive ==
    pc = "done" /\ ExclusiveWithCompany =>
        /\ result.kind # "Ok"
        /\ ReachesConflicts =>
               result = Err("ArgumentConflict", FirstExclusive, <<>>)

\* the exclusive argument is not the first present id, nothing declares a
\* conflict with anything present, and the run ends in ArgumentConflict
C2_Witness ==
    /\ pc = "done"
    /\ ExclusiveWithCompany
    /\ ~IsExclusive(Head(ExplicitIds))
    /\ \A i \in DOMAIN ExplicitIds : direct_conflicts(ExplicitIds[i]) = {}
    /\ result.kind = "ArgumentConflict"

\* B is in A's direct-conflict set, A is not in B's, both explicitly present
OneSided(A, B) ==
    /\ A # B
    /\ Present(A) /\ Present(B)
    /\ B \in direct_conflicts(A)
    /\ A \notin direct_conflicts(B)

(* C3: if B is in A's direct-conflict set but A is not in B's and both are *)
(* supplied, the conflicts gathered for A contain B, those gathered for B   *)
(* contain A, and validate does not return Ok, whichever comes first.       *)
C3_ConflictSymmetry ==
    \A A, B \in ArgIds :
        OneSided(A, B) =>
            /\ Contains(gather_conflicts(potential, A).conflicts, B)
            /\ Contains(gather_conflicts(potential, B).conflicts, A)
            /\ pc = "done" => result.kind # "Ok"

\* the side that declared nothing is iterated first and is the one reported
C3_Witness ==
    /\ pc = "done"
    /\ \E A, B \in ArgIds :
           /\ OneSided(A, B)
           /\ Head(ExplicitIds) = B
           /\ result = Err("ArgumentConflict", B, <<A>>)

NoDeclaredConflicts ==
    /\ \A a \in ArgIds : /\ cmd.args[a].blacklist = {}
                         /\ cmd.args[a].overrides = {}
                         /\ ~cmd.args[a].exclusive
    /\ \A g \in GroupIds : cmd.groups[g].conflicts = {}

PresentMembers(g) == {m \in cmd.groups[g].args : Present(m)}

(* C4: two distinct members of a group that disallows multiple never       *)
(* validate together; exactly one member, with no declared conflict,        *)
(* override or exclusive flag, gathers no conflict and never ends in        *)
(* ArgumentConflict, also when the group's own id is recorded as present.   *)
C4_GroupExclusivity ==
    \A g \in GroupIds :
        ~cmd.groups[g].multiple =>
            /\ (pc = "done" /\ Cardinality(PresentMembers(g)) >= 2)
                   => result.kind # "Ok"
            /\ (NoDeclaredConflicts /\ Cardinality(PresentMembers(g)) = 1) =>
                   /\ \A m \in PresentMembers(g) :
                          gather_conflicts(potential, m).conflicts = <<>>
                   /\ pc = "done" => result.kind # "ArgumentConflict"

\* one member of a two-member group is present beside the group's own id
C4_Witness ==
    /\ pc = "done"
    /\ NoDeclaredConflicts
    /\ \E g \in GroupIds :
           /\ ~cmd.groups[g].multiple
           /\ Cardinality(cmd.groups[g].args) >= 2
           /\ Cardinality(PresentMembers(g)) = 1
           /\ Present(g)
    /\ result.kind = "Ok"

\* the present ids in conflict with F, by either side's declaration
RelatedTo(F) ==
    {c \in Ids : /\ c # F
                 /\ Present(c)
                 /\ c \in direct_conflicts(F) \/ F \in direct_conflicts(c)}

\* groups replaced by their members
Expanded(S) ==
    (S \cap ArgIds) \cup UNION {cmd.groups[g].args : g \in S \cap GroupIds}

\* the present arguments whose conflict set is not empty, in matcher order
Conflicted == SelectSeq(conflict_candidates, LAMBDA a : RelatedTo(a) # {})

\* the error names the first conflicted argument and lists its conflicts only
FirstConflictReported ==
    /\ result.kind = "ArgumentConflict"
    /\ result.arg = Head(Conflicted)
    /\ Range(result.list) = Expanded(RelatedTo(Head(Conflicted)))
    /\ NoDup(result.list)

(* C8 as stated: when several present arguments have a nonempty conflict   *)
(* set, the ArgumentConflict names the first of them in matcher order and   *)
(* lists only its conflicts (groups expanded, each id once).                *)
C8_AsStated ==
    (pc = "done" /\ ReachesConflicts /\ Len(Conflicted) >= 2)
        => FirstConflictReported

(* C8 amended: the same, when the exclusivity check passes (no exclusive   *)
(* argument is present beside another id).                                  *)
C8_FailFast ==
    (pc = "done" /\ ReachesConflicts /\ ~ExclusiveWithCompany
        /\ Len(Conflicted) >= 2)
        => FirstConflictReported

\* two independent conflicting pairs are present; the later one is not named
C8_Witness ==
    /\ pc = "done"
    /\ ~ExclusiveWithCompany
    /\ result.kind = "ArgumentConflict"
    /\ \E x, y \in Range(Conflicted) :
           /\ y \in RelatedTo(x)
           /\ {x, y} \cap (RelatedTo(result.arg) \cup {result.arg}) = {}
           /\ {x, y} \cap Range(result.list) = {}

----------------------------------------------------------------------------
(* Required-argument claims *)

Missing(id) == Contains(missing_required, id)

\* A's only requirement declaration is requires-unless = [B], and nothing
\* put A into the Required-Set
OnlyUnless(A, B) ==
    /\ cmd.args[A].r_unless = {B}
    /\ cmd.args[A].r_unless_all = {}
    /\ cmd.args[A].r_ifs = {}
    /\ cmd.args[A].r_ifs_all = {}
    /\ ~Contains(required, A)

Gapless == "allow_missing_positional" \notin cmd.settings

\* A is a positional below the highest index among the missing arguments
BackFilled(A) ==
    /\ Gapless
    /\ cmd.args[A].index # 0
    /\ cmd.args[A].index < highest_index

(* C5 as stated: for A with only requires-unless = [B], A absent, when     *)
(* required validation runs: B present => A is not in the missing list;     *)
(* B absent => A is in the missing list and validate returns                *)
(* MissingRequiredArgument.                                                 *)
C5_AsStated ==
    RequiredRan =>
        \A A \in ArgIds, B \in Ids :
            (OnlyUnless(A, B) /\ ~Present(A)) =>
                /\ Present(B) => ~Missing(A)
                /\ ~Present(B) =>
                       /\ Missing(A)
                       /\ result = Err("MissingRequiredArgument", NoId, missing_required)

(* C5 amended: B present => A is in the missing list only by positional    *)
(* back-fill (A a positional below the highest missing index, gaps not      *)
(* allowed); B absent => A is in the missing list and validate returns      *)
(* MissingRequiredArgument.                                                 *)
C5_RequiredUnless ==
    RequiredRan =>
        \A A \in ArgIds, B \in Ids :
            (OnlyUnless(A, B) /\ ~Present(A)) =>
                /\ Present(B) => (Missing(A) <=> BackFilled(A))
                /\ ~Present(B) =>
                       /\ Missing(A)
                       /\ result = Err("MissingRequiredArgument", NoId, missing_required)

\* B is supplied, A is absent and the run ends Ok
C5_Witness ==
    /\ RequiredRan
    /\ \E A \in ArgIds, B \in Ids :
           OnlyUnless(A, B) /\ ~Present(A) /\ Present(B) /\ ~Missing(A)
    /\ result.kind = "Ok"

\* P1 and P2 are the positionals of index 1 and 2
Positionals(P1, P2) == cmd.args[P1].index = 1 /\ cmd.args[P2].index = 2

(* C6 as stated: P1 (index 1) and P2 (index 2) both required, gaps not     *)
(* allowed, only P2 supplied: the missing list of the                       *)
(* MissingRequiredArgument contains both P1 and P2.                         *)
C6_AsStated ==
    (RequiredRan /\ result.kind = "MissingRequiredArgument") =>
        \A P1, P2 \in ArgIds :
            (/\ Positionals(P1, P2) /\ Gapless
             /\ cmd.args[P1].required /\ cmd.args[P2].required
             /\ ~Present(P1) /\ Present(P2)) =>
                Contains(result.list, P1) /\ Contains(result.list, P2)

(* C6 amended: gaps not allowed, neither P1 nor P2 supplied, P2 in the     *)
(* Required-Set, not flagged last, without live conflict, and no exclusive  *)
(* argument present: the missing list contains both P1 and P2, P1 by        *)
(* back-fill even when P1 is not itself required.  A supplied P2 is never   *)
(* in the missing list.                                                     *)
C6_Backfill ==
    RequiredRan =>
        \A P1, P2 \in ArgIds :
            (Positionals(P1, P2) /\ Gapless) =>
                /\ Present(P2) => ~Missing(P2)
                /\ (/\ ~Present(P1) /\ ~Present(P2)
                    /\ Contains(required, P2)
                    /\ ~cmd.args[P2].last
                    /\ RelatedTo(P2) = {}
                    /\ ~exclusive_present) =>
                       /\ result.kind = "MissingRequiredArgument"
                       /\ Contains(result.list, P1)
                       /\ Contains(result.list, P2)

\* P1 is under no requirement of its own and is listed beside P2
C6_Witness ==
    /\ RequiredRan
    /\ \E P1, P2 \in ArgIds :
           /\ Positionals(P1, P2) /\ Gapless
           /\ ~Present(P1) /\ ~Present(P2)
           /\ ~Contains(required, P1)
           /\ ~conditionally_required(P1)
           /\ Contains(result.list, P1) /\ Contains(result.list, P2)

\* a's requires-if, requires-if-all or requires-unless rule asks for a
RuleTriggers(a) ==
    LET A == cmd.args[a] IN
    \/ \E r \in A.r_ifs : check_explicit(r[1], Equals(r[2]))
    \/ /\ A.r_ifs_all # {}
       /\ \A r \in A.r_ifs_all : check_explicit(r[1], Equals(r[2]))
    \/ /\ A.r_unless # {} \/ A.r_unless_all # {}
       /\ \A id \in A.r_unless : ~Present(id)
       /\ A.r_unless_all = {} \/ \E id \in A.r_unless_all : ~Present(id)

\* what the missing list must hold of arguments, and of conditional rules
ArgumentsComplete ==
    /\ \A a \in ArgIds :
           (Contains(required, a) /\ ~Present(a) /\ RelatedTo(a) = {})
               => Missing(a)
    /\ \A a \in ArgIds : (~Present(a) /\ RuleTriggers(a)) => Missing(a)
    /\ missing_required # <<>> =>
           result = Err("MissingRequiredArgument", NoId, missing_required)

(* C9 as stated: with no exclusive argument present, the one               *)
(* MissingRequiredArgument lists every absent Required-Set argument without *)
(* live conflict, every Required-Set group none of whose members is         *)
(* present, and every absent argument whose conditional rule triggers.      *)
C9_AsStated ==
    (RequiredRan /\ ~exclusive_present) =>
        /\ ArgumentsComplete
        /\ \A g \in GroupIds :
               (Contains(required, g) /\ PresentMembers(g) = {}) => Missing(g)

(* C9 amended: the same, for every Required-Set group that is not itself   *)
(* recorded as explicitly present and none of whose members is present.     *)
C9_FailComplete ==
    (RequiredRan /\ ~exclusive_present) =>
        /\ ArgumentsComplete
        /\ \A g \in GroupIds :
               (Contains(required, g) /\ ~Present(g) /\ PresentMembers(g) = {})
                   => Missing(g)

\* two required arguments are absent and the one error lists both
C9_Witness ==
    /\ RequiredRan
    /\ ~exclusive_present
    /\ result.kind = "MissingRequiredArgument"
    /\ \E a, b \in ArgIds :
           /\ a # b
           /\ Contains(required, a) /\ Contains(required, b)
           /\ Contains(result.list, a) /\ Contains(result.list, b)

(* C10: when required validation runs with an exclusive argument           *)
(* explicitly present, the scan of the Required-Set records no identifier   *)
(* as missing, argument or group.                                           *)
C10_ExclusivityBypass ==
    (pc = "conditional" /\ is_exclusive_present) => missing_required = <<>>

(* C11: the missing list validate_required hands to missing_required_error   *)
(* holds each identifier at most once: an id pushed by the Required-Set     *)
(* scan is not pushed again by the conditional sweep or by the positional   *)
(* back-fill.                                                               *)
C11_MissingOnce ==
    /\ pc = "report" => NoDup(missing_required)
    /\ (pc = "done" /\ result.kind = "MissingRequiredArgument") =>
           NoDup(result.list)

====
